---- MODULE Spec2Model ----
(***************************************************************************)
(* A model of the news-article scraper: NewsScraper (scraper.py) and the   *)
(* POST /scrape endpoint (app.py).                                          *)
(*                                                                         *)
(* Strings are sequences of tokens: the string is the concatenation of its *)
(* tokens, " " is a run of whitespace.  A Python value that may be None is *)
(* a record [none, s].  A parsed document (soup) is the sequence of its    *)
(* elements in document order, each with the index of its parent element   *)
(* (0: no parent element) and one text node ahead of its child elements.   *)
(* The bytes of a page are the sequence of <<element, parent>> pairs its    *)
(* markup spells, an element being named by its index in Shapes.            *)
(***************************************************************************)
EXTENDS Integers, Sequences, FiniteSets, TLC

(* ------------------------------ bounds -------------------------------- *)

\* Elements per document, by document family (see the families below).
MaxTitleNodes == 2
MaxImageNodes == 2
MaxContentNodes == 3
MaxDateNodes == 2
MaxMixedNodes == 3
\* Elements per document when two calls run concurrently.
MaxConcNodes == 2
\* Elements per document behind the endpoint.
MaxAppNodes == 2
\* datetime.now() returns one of the readings 0..MaxClock.
MaxClock == 1

(* --------------------------- Python values ---------------------------- *)

None == [none |-> TRUE, s |-> <<>>]

Str(toks) == [none |-> FALSE, s |-> toks]

\* bool(v) of a value that is None or a str
Truthy(v) == ~v.none /\ v.s # <<>>

\* a or b
Or(a, b) == IF Truthy(a) THEN a ELSE b

WS == " "

RECURSIVE lstrip(_)
lstrip(s) ==
    IF s # <<>> /\ Head(s) = WS THEN lstrip(Tail(s)) ELSE s

RECURSIVE rstrip(_)
rstrip(s) ==
    IF s # <<>> /\ s[Len(s)] = WS THEN rstrip(SubSeq(s, 1, Len(s) - 1)) ELSE s

\* str.strip()
strip(s) == rstrip(lstrip(s))

Range(s) == {s[i] : i \in 1..Len(s)}

Min(S) == CHOOSE m \in S : \A n \in S : m <= n

(* ----------------------------- documents ------------------------------ *)

AttrNames == {"property", "name", "content", "src", "data-src", "datetime"}

NoAttrs == [a \in AttrNames |-> None]

Attr1(a1, v1) == [NoAttrs EXCEPT ![a1] = Str(v1)]

Attr2(a1, v1, a2, v2) == [NoAttrs EXCEPT ![a1] = Str(v1), ![a2] = Str(v2)]

El(tag, cls, id, attrs, text) ==
    [tag |-> tag, cls |-> cls, id |-> id, attrs |-> attrs, text |-> text]

\* html.parser: void elements and raw-text elements hold no child elements.
CanHaveChildren(tag) == tag \notin {"meta", "img", "script", "style", "title"}

RECURSIVE Ancestor(_, _, _)
\* element a is a proper ancestor of element i
Ancestor(soup, a, i) ==
    LET p == soup[i].parent IN
    p # 0 /\ (p = a \/ Ancestor(soup, a, p))

Descendants(soup, e) == {i \in 1..Len(soup) : Ancestor(soup, e, i)}

\* The elements a new last element may be a child of: the last element or one
\* of its ancestors (document order is pre-order), when it can hold children.
OpenParents(d) ==
    {0} \cup {a \in 1..Len(d) :
                /\ a = Len(d) \/ Ancestor(d, a, Len(d))
                /\ CanHaveChildren(d[a].el.tag)}

\* d is a document: every element's parent is open when the element starts
WellFormed(d) ==
    \A i \in 1..Len(d) : d[i].parent \in OpenParents(SubSeq(d, 1, i - 1))

(* ------------------------------ selectors ----------------------------- *)

\* A CSS selector of the forms the scraper uses: tag, tag.cls, tag#id,
\* tag[attr="val"], and "anc tag" (descendant combinator).
Sel(tag, cls, id, attr, val, anc) ==
    [tag |-> tag, cls |-> cls, id |-> id, attr |-> attr, val |-> val, anc |-> anc]

Tag(tag) == Sel(tag, "", "", "", <<>>, "")

Matches(soup, i, sel) ==
    LET n == soup[i].el IN
    /\ n.tag = sel.tag
    /\ sel.cls = "" \/ sel.cls \in n.cls
    /\ sel.id = "" \/ n.id = sel.id
    /\ sel.attr = "" \/ n.attrs[sel.attr] = Str(sel.val)
    /\ sel.anc = "" \/ \E a \in 1..Len(soup) :
                          Ancestor(soup, a, i) /\ soup[a].el.tag = sel.anc

\* soup.select_one(selector): the first match in document order, 0 for None
select_one(soup, sel) ==
    LET m == {i \in 1..Len(soup) : Matches(soup, i, sel)} IN
    IF m = {} THEN 0 ELSE Min(m)

RECURSIVE JoinFrom(_, _, _, _)
\* the stripped, non-empty text nodes of element e and its descendants from
\* index i on, joined with sep; the text of a nested script or style element
\* counts as text (BeautifulSoup before 4.11), which is the case the pruning
\* of _extract_content is there for
JoinFrom(soup, e, i, sep) ==
    IF i > Len(soup) THEN <<>>
    ELSE LET rest == JoinFrom(soup, e, i + 1, sep)
             t == strip(soup[i].el.text)
         IN  IF (i = e \/ Ancestor(soup, e, i)) /\ t # <<>>
             THEN IF rest = <<>> THEN t ELSE t \o sep \o rest
             ELSE rest

\* elem.get_text(separator=sep, strip=True)
get_text(soup, e, sep) == JoinFrom(soup, e, e, sep)

\* elem.get(attr)
get(soup, e, attr) == soup[e].el.attrs[attr]

(* -------------------------------- URLs -------------------------------- *)

\* A URL is tokenised as scheme ("https:"), "//", host, then "/" and path
\* segments, so that concatenating the tokens gives the string.
Schemes == {"http:", "https:", "ftp:", "data:"}

\* urllib.parse.uses_relative, among Schemes
uses_relative == {"http:", "https:", "ftp:"}

\* hosts with an unbalanced bracket: urlsplit raises ValueError("Invalid IPv6 URL")
BadNetlocs == {"[x"}

\* image_url.startswith(('http://', 'https://'))
startswith_http(s) ==
    Len(s) >= 2 /\ s[1] \in {"http:", "https:"} /\ s[2] = "//"

\* urllib.parse.urlsplit: scheme, netloc and path of a reference
urlsplit(u) ==
    LET scheme == IF u # <<>> /\ u[1] \in Schemes THEN u[1] ELSE ""
        r == IF scheme = "" THEN u ELSE Tail(u)
        hasloc == r # <<>> /\ r[1] = "//"
        netloc == IF hasloc /\ Len(r) >= 2 /\ r[2] # "/" THEN r[2] ELSE ""
        path == IF ~hasloc THEN r
                ELSE IF netloc = "" THEN Tail(r) ELSE Tail(Tail(r))
    IN  [scheme |-> scheme, netloc |-> netloc, path |-> path]

RECURSIVE basedir(_)
\* the base path without its last segment
basedir(p) ==
    IF p = <<>> THEN <<"/">>
    ELSE IF p[Len(p)] = "/" THEN p
    ELSE basedir(SubSeq(p, 1, Len(p) - 1))

\* requests.compat.urljoin(base, url) = urllib.parse.urljoin, for references
\* without dot segments, query or fragment
urljoin(base, url) ==
    LET b == urlsplit(base)
        u == urlsplit(url)
        scheme == IF u.scheme = "" THEN b.scheme ELSE u.scheme
        ok(r) == [raises |-> FALSE, url |-> r]
    IN  IF base = <<>> THEN ok(url)
        ELSE IF url = <<>> THEN ok(base)
        ELSE IF b.netloc \in BadNetlocs \/ u.netloc \in BadNetlocs
             THEN [raises |-> TRUE, url |-> <<>>]
        ELSE IF scheme # b.scheme \/ scheme \notin uses_relative THEN ok(url)
        ELSE IF u.netloc # "" THEN ok(<<scheme, "//", u.netloc>> \o u.path)
        ELSE IF u.path = <<>> THEN ok(<<scheme, "//", b.netloc>> \o b.path)
        ELSE IF u.path[1] = "/" THEN ok(<<scheme, "//", b.netloc>> \o u.path)
        ELSE ok(<<scheme, "//", b.netloc>> \o basedir(b.path) \o u.path)

(* ------------------------------- dates -------------------------------- *)

DateToks == {"2023-05-01", "2024-02-03", "2022-12-31", "2021-07-04",
             "2020-01-01", "2019-09-09"}

TimeToks == {"12:00:00", "08:30:00", "10:00:00", "09:09:09"}

OffsetToks == {"+00:00", "+05:30"}

\* date_str.replace('Z', '+00:00')
replace_Z(s) == [i \in 1..Len(s) |-> IF s[i] = "Z" THEN "+00:00" ELSE s[i]]

\* datetime.fromisoformat(s): a date, optionally any one-character separator
\* and a time, optionally a UTC offset; anything else raises ValueError
fromisoformat(s) ==
    LET n == Len(s)
        good == /\ n \in {1, 3, 4}
                /\ s[1] \in DateToks
                /\ n >= 3 => s[2] \in {"T", WS} /\ s[3] \in TimeToks
                /\ n = 4 => s[4] \in OffsetToks
    IN  IF good
        THEN [raises |-> FALSE,
              dt |-> [date |-> s[1],
                      time |-> IF n >= 3 THEN s[3] ELSE "00:00:00",
                      tz |-> IF n = 4 THEN s[4] ELSE ""]]
        ELSE [raises |-> TRUE, dt |-> [date |-> "", time |-> "", tz |-> ""]]

\* parsed_date.isoformat()
isoformat(dt) ==
    <<dt.date, "T", dt.time>> \o (IF dt.tz = "" THEN <<>> ELSE <<dt.tz>>)

Clock == 0..MaxClock

\* datetime.now().isoformat() when the wall clock reads t
now_isoformat(t) == <<"now", "T", ToString(t)>>

(* ----------------------------- extractors ----------------------------- *)

\* title_selectors with the generic h1 ahead of the <title> element
title_selectors_h1_first ==
    << Sel("h1", "article-title", "", "", <<>>, ""),
       Sel("h1", "post-title", "", "", <<>>, ""),
       Sel("h1", "", "main-title", "", <<>>, ""),
       Sel("h1", "", "", "", <<>>, ""),
       Sel("title", "", "", "", <<>>, "") >>

title_selectors ==
    << Sel("h1", "article-title", "", "", <<>>, ""),
       Sel("h1", "post-title", "", "", <<>>, ""),
       Sel("h1", "", "main-title", "", <<>>, ""),
       Tag("title"),
       Tag("h1") >>

NoTitle == <<"No title found">>

RECURSIVE title_loop_no_return(_, _)
\* title_loop without the return at the first match: later selectors override
title_loop_no_return(soup, k) ==
    IF k > Len(title_selectors) THEN Str(NoTitle)
    ELSE LET title_elem == select_one(soup, title_selectors[k])
             later == title_loop_no_return(soup, k + 1)
         IN  IF later # Str(NoTitle) \/ title_elem = 0 THEN later
             ELSE Str(get_text(soup, title_elem, <<>>))

RECURSIVE title_loop(_, _)
\* the loop of _extract_title from the k-th selector on
title_loop(soup, k) ==
    IF k > Len(title_selectors) THEN Str(NoTitle)
    ELSE LET title_elem == select_one(soup, title_selectors[k]) IN
         IF title_elem # 0 THEN Str(get_text(soup, title_elem, <<>>))
         ELSE title_loop(soup, k + 1)

_extract_title(soup) == title_loop(soup, 1)

image_selectors ==
    << Sel("meta", "", "", "property", <<"og:image">>, ""),
       Sel("img", "article-image", "", "", <<>>, ""),
       Sel("img", "", "", "", <<>>, "figure"),
       Sel("img", "featured-image", "", "", <<>>, ""),
       Tag("img") >>

NoImage == <<"No image found">>

\* image_elem.get('src') or image_elem.get('data-src') or image_elem.get('content')
image_attr(soup, e) ==
    Or(get(soup, e, "src"), Or(get(soup, e, "data-src"), get(soup, e, "content")))

\* lines 119-123: the URL made absolute; raises when urljoin raises
absolutize(self_url, image_url) ==
    IF Truthy(image_url) /\ ~startswith_http(image_url.s)
    THEN LET j == urljoin(self_url, image_url.s) IN
         IF j.raises THEN [raises |-> TRUE, value |-> None]
         ELSE [raises |-> FALSE, value |-> Str(j.url)]
    ELSE [raises |-> FALSE, value |-> image_url]

RECURSIVE image_loop(_, _, _)
\* the loop of _extract_image_url from the k-th selector on
image_loop(self_url, soup, k) ==
    IF k > Len(image_selectors) THEN [raises |-> FALSE, value |-> Str(NoImage)]
    ELSE LET image_elem == select_one(soup, image_selectors[k]) IN
         IF image_elem # 0 THEN absolutize(self_url, image_attr(soup, image_elem))
         ELSE image_loop(self_url, soup, k + 1)

_extract_image_url(self_url, soup) == image_loop(self_url, soup, 1)

content_selectors ==
    << Sel("div", "article-body", "", "", <<>>, ""),
       Sel("div", "entry-content", "", "", <<>>, ""),
       Tag("article"),
       Sel("div", "post-content", "", "", <<>>, ""),
       Sel("div", "", "main-content", "", <<>>, "") >>

NoContent == <<"No content found">>

\* find_all(recursive=False): the children only
find_children(soup, e, tags) ==
    {i \in 1..Len(soup) : soup[i].parent = e /\ soup[i].el.tag \in tags}

\* soup(["script", "style"]): the whole document instead of the container
find_in_document(soup, e, tags) == {i \in 1..Len(soup) : soup[i].el.tag \in tags}

\* content_elem(["script", "style"]): find_all, every descendant with such a tag
find_all(soup, e, tags) == {i \in Descendants(soup, e) : soup[i].el.tag \in tags}

\* tag.decompose() for every tag of gone: the elements and their descendants
\* leave the tree
decompose(soup, gone) ==
    LET out == gone \cup UNION {Descendants(soup, g) : g \in gone}
        keep == {i \in 1..Len(soup) : i \notin out}
        rank(i) == Cardinality({j \in keep : j <= i})
        at(k) == CHOOSE i \in keep : rank(i) = k
    IN  [k \in 1..Cardinality(keep) |->
            [el |-> soup[at(k)].el,
             parent |-> IF soup[at(k)].parent = 0 THEN 0
                        ELSE rank(soup[at(k)].parent)]]

RECURSIVE content_loop(_, _)
\* the loop of _extract_content from the k-th selector on: the text and the
\* document as the call leaves it
content_loop(soup, k) ==
    IF k > Len(content_selectors) THEN [soup |-> soup, value |-> Str(NoContent)]
    ELSE LET content_elem == select_one(soup, content_selectors[k]) IN
         IF content_elem # 0
         THEN LET pruned == decompose(soup, find_all(soup, content_elem,
                                                     {"script", "style"}))
              IN  [soup |-> pruned,
                   value |-> Str(get_text(pruned, content_elem, <<WS>>))]
         ELSE content_loop(soup, k + 1)

_extract_content(soup) == content_loop(soup, 1)

date_selectors ==
    << Sel("meta", "", "", "property", <<"article:published_time">>, ""),
       Sel("time", "published-date", "", "", <<>>, ""),
       Sel("span", "post-date", "", "", <<>>, ""),
       Sel("meta", "", "", "name", <<"date">>, "") >>

\* date_elem.get('content') or date_elem.get('datetime') or date_elem.get_text(strip=True)
date_attr(soup, e) ==
    Or(get(soup, e, "content"),
       Or(get(soup, e, "datetime"), Str(get_text(soup, e, <<>>))))

RECURSIVE date_loop_abort(_, _, _)
\* date_loop giving up at the first candidate that does not parse
date_loop_abort(soup, k, t) ==
    IF k > Len(date_selectors) THEN Str(now_isoformat(t))
    ELSE LET date_elem == select_one(soup, date_selectors[k]) IN
         IF date_elem # 0
         THEN LET date_str == date_attr(soup, date_elem)
                  parsed_date == fromisoformat(replace_Z(date_str.s))
              IN  IF ~parsed_date.raises THEN Str(isoformat(parsed_date.dt))
                  ELSE Str(now_isoformat(t))
         ELSE date_loop_abort(soup, k + 1, t)

RECURSIVE date_loop(_, _, _)
\* the loop of _extract_date from the k-th selector on; t is the reading of
\* datetime.now()
date_loop(soup, k, t) ==
    IF k > Len(date_selectors) THEN Str(now_isoformat(t))
    ELSE LET date_elem == select_one(soup, date_selectors[k]) IN
         IF date_elem # 0
         THEN LET date_str == date_attr(soup, date_elem)
                  parsed_date == fromisoformat(replace_Z(date_str.s))
              IN  IF ~parsed_date.raises THEN Str(isoformat(parsed_date.dt))
                  ELSE date_loop(soup, k + 1, t)
         ELSE date_loop(soup, k + 1, t)

_extract_date(soup, t) == date_loop(soup, 1, t)

(* ------------------------------- inputs ------------------------------- *)

U1 == <<"https:", "//", "x.test", "/", "news", "/", "1">>

U2 == <<"http:", "//", "y.test", "/", "a", "/", "b">>

\* a string requests rejects before any network traffic (MissingSchema)
BadUrl == <<"not-a-url">>

Urls == {U1, U2}

Rel1 == <<"/", "img", "/", "a.jpg">>

Rel2 == <<"b.png">>

NetRef == <<"//", "cdn.test", "/", "c.gif">>

Abs1 == <<"https:", "//", "cdn.test", "/", "d.jpg">>

Abs2 == <<"http:", "//", "z.test", "/", "e.jpg">>

DataUrl == <<"data:", "image/png;base64,AAAA">>

BadRef == <<"//", "[x">>

TitleEls ==
    << El("h1", {"article-title"}, "", NoAttrs, <<WS, "Headline", WS>>),
      El("h1", {"article-title", "big"}, "", NoAttrs, <<WS>>),
      El("h1", {"post-title"}, "", NoAttrs, <<"Post">>),
      El("h1", {}, "main-title", NoAttrs, <<"Main">>),
      El("title", {}, "", NoAttrs, <<WS, "Page", WS, "title", WS>>),
      El("title", {}, "", NoAttrs, <<>>),
      El("h1", {}, "", NoAttrs, <<WS, "Heading">>),
      El("span", {}, "", NoAttrs, <<"Sub">>) >>

ImageEls ==
    << El("meta", {}, "", Attr2("property", <<"og:image">>, "content", Abs1), <<>>),
      El("meta", {}, "", Attr2("property", <<"og:image">>, "content", <<>>), <<>>),
      El("img", {"article-image"}, "", Attr1("src", Rel1), <<>>),
      El("figure", {}, "", NoAttrs, <<>>),
      El("img", {}, "", Attr1("src", Rel2), <<>>),
      El("img", {"featured-image", "lazy"}, "", Attr1("data-src", NetRef), <<>>),
      El("img", {}, "", Attr2("src", <<>>, "data-src", DataUrl), <<>>),
      El("img", {}, "", NoAttrs, <<>>),
      El("img", {}, "", Attr1("src", BadRef), <<>>),
      El("img", {}, "", Attr2("src", Abs2, "data-src", Rel1), <<>>) >>

ContentEls ==
    << El("div", {"article-body"}, "", NoAttrs, <<"Lead", WS>>),
      El("div", {"entry-content"}, "", NoAttrs, <<>>),
      El("article", {}, "", NoAttrs, <<WS, "Story">>),
      El("div", {"post-content"}, "", NoAttrs, <<"Post", WS, "body">>),
      El("div", {}, "main-content", NoAttrs, <<"Main">>),
      El("p", {}, "", NoAttrs, <<"Para", WS>>),
      El("script", {}, "", NoAttrs, <<"alert(1)">>),
      El("style", {}, "", NoAttrs, <<WS, "p{}">>) >>

DateEls ==
    << El("meta", {}, "", Attr2("property", <<"article:published_time">>,
                               "content", <<"2023-05-01", "T", "12:00:00", "Z">>), <<>>),
      El("meta", {}, "", Attr2("property", <<"article:published_time">>,
                               "content", <<"May 1, 2023">>), <<>>),
      El("meta", {}, "", [Attr2("property", <<"article:published_time">>,
                                "content", <<>>)
                          EXCEPT !["datetime"] = Str(<<"2019-09-09", WS, "09:09:09">>)],
         <<>>),
      El("time", {"published-date"}, "",
         Attr1("datetime", <<"2024-02-03", "T", "08:30:00", "+05:30">>), <<"3 Feb">>),
      El("time", {"published-date"}, "", NoAttrs, <<WS, "2022-12-31", WS>>),
      El("span", {"post-date"}, "", NoAttrs, <<"yesterday">>),
      El("span", {"post-date"}, "", NoAttrs, <<"2021-07-04", "T", "10:00:00">>),
      El("meta", {}, "", Attr2("name", <<"date">>, "content", <<"2020-01-01">>), <<>>) >>

MixedEls ==
    { El("title", {}, "", NoAttrs, <<WS, "Page", WS, "title", WS>>),
      El("h1", {}, "", NoAttrs, <<WS, "Heading">>),
      El("img", {"article-image"}, "", Attr1("src", Rel1), <<>>),
      El("img", {}, "", Attr1("src", BadRef), <<>>),
      El("article", {}, "", NoAttrs, <<WS, "Story">>),
      El("script", {}, "", NoAttrs, <<"alert(1)">>),
      El("time", {"published-date"}, "", NoAttrs, <<WS, "2022-12-31", WS>>),
      El("meta", {}, "", Attr2("name", <<"date">>, "content", <<"2020-01-01">>), <<>>) }

ConcEls ==
    { El("img", {}, "", Attr1("src", Rel2), <<>>),
      El("article", {}, "", NoAttrs, <<WS, "Story">>),
      El("script", {}, "", NoAttrs, <<"alert(1)">>) }

\* every element the pages are written with
Shapes == TitleEls \o ImageEls \o ContentEls \o DateEls

IndexOf(els) == {k \in DOMAIN Shapes : Shapes[k] \in els}

TitleShapes == IndexOf(Range(TitleEls))

ImageShapes == IndexOf(Range(ImageEls))

ContentShapes == IndexOf(Range(ContentEls))

DateShapes == IndexOf(Range(DateEls))

MixedShapes == IndexOf(MixedEls)

ConcShapes == IndexOf(ConcEls)

\* BeautifulSoup(response.content, 'html.parser')
BeautifulSoup(html) ==
    [i \in DOMAIN html |-> [el |-> Shapes[html[i][1]], parent |-> html[i][2]]]

\* the pages of at most max elements written with shapes
Htmls(shapes, max) ==
    UNION {{h \in [1..n -> shapes \X (0..(n - 1))] : WellFormed(BeautifulSoup(h))} :
           n \in 0..max}

\* what requests.get answers: a response with a body, or the failure it raises
Page(html) == [status |-> "ok", body |-> html]

Failure(exc) == [status |-> exc, body |-> <<>>]

FetchFailures == {Failure("ConnectionError"), Failure("Timeout"), Failure("HTTPError")}

\* the (URL, answer) pairs a call is run on
Inputs ==
    ({U1} \X {Page(h) : h \in Htmls(TitleShapes, MaxTitleNodes)
                              \cup Htmls(ContentShapes, MaxContentNodes)
                              \cup Htmls(DateShapes, MaxDateNodes)
                              \cup Htmls(MixedShapes, MaxMixedNodes)})
    \cup (Urls \X {Page(h) : h \in Htmls(ImageShapes, MaxImageNodes)})
    \cup (Urls \X FetchFailures)
    \cup {<<BadUrl, Page(<<>>)>>}

ConcInputs ==
    Urls \X ({Page(h) : h \in Htmls(ConcShapes, MaxConcNodes)}
             \cup {Failure("Timeout")})

(* ------------------------------- state -------------------------------- *)

VARIABLES
    url,        \* self.url of each NewsScraper
    page,       \* the answer of requests.get for each NewsScraper's URL
    pc,         \* where each call stands
    soup,       \* each call's parsed document
    title,      \* locals of scrape_article
    image_url,
    content,
    result,     \* what scrape_article returned or raised
    log,        \* logging.error records
    started,    \* scrape_article calls begun for each request
    request,    \* the body of each POST /scrape request
    response    \* its response

vars == <<url, page, pc, soup, title, image_url, content, result, log,
          started, request, response>>

Calls == DOMAIN pc

NoArticle ==
    [title |-> None, image_url |-> None, content |-> None, date |-> None,
     source_url |-> None]

Pending == [kind |-> "pending", article |-> NoArticle]

ReturnedNone == [kind |-> "None", article |-> NoArticle]

Raised(exc) == [kind |-> exc, article |-> NoArticle]

Returned(article) == [kind |-> "article", article |-> article]

NoRequest == [kind |-> "none", link |-> None]

NoResponse == [status |-> 0, kind |-> "none", detail |-> "", article |-> NoArticle]

\* jsonify(...), status
Response(status, kind, detail, article) ==
    [status |-> status, kind |-> kind, detail |-> detail, article |-> article]

\* a request body: malformed JSON, the JSON values null and [], or a JSON
\* object, whose "link" is None when the key is missing or null
Body(kind, link) == [kind |-> kind, link |-> link]

Bodies ==
    {Body("malformed", None), Body("null", None), Body("array", None)}
    \cup {Body("object", l) : l \in {None, Str(<<>>), Str(U1), Str(U2), Str(BadUrl)}}

\* calls cs about to run scrape_article, each on its own URL and answer
Fresh(cs) ==
    /\ pc = [c \in cs |-> "start"]
    /\ soup = [c \in cs |-> <<>>]
    /\ title = [c \in cs |-> None]
    /\ image_url = [c \in cs |-> None]
    /\ content = [c \in cs |-> None]
    /\ result = [c \in cs |-> Pending]
    /\ log = <<>>
    /\ started = [c \in cs |-> 0]
    /\ request = [c \in cs |-> NoRequest]
    /\ response = [c \in cs |-> NoResponse]

\* one NewsScraper(url).scrape_article() call, as main() makes it
Init ==
    /\ \E in \in Inputs : url = <<in[1]>> /\ page = <<in[2]>>
    /\ Fresh({1})

\* one POST /scrape request; the page is what its link would be answered with
InitApp ==
    /\ request \in [{1} -> Bodies]
    /\ page \in [{1} -> {Page(h) : h \in Htmls(MixedShapes, MaxAppNodes)}
                        \cup FetchFailures]
    /\ url = <<<<>>>>
    /\ pc = <<"request">>
    /\ soup = <<<<>>>>
    /\ title = <<None>>
    /\ image_url = <<None>>
    /\ content = <<None>>
    /\ result = <<Pending>>
    /\ log = <<>>
    /\ started = <<0>>
    /\ response = <<NoResponse>>

\* two calls on distinct NewsScraper instances, one on U1 and one on U2
InitConc ==
    /\ \E in \in [{1, 2} -> ConcInputs] :
          /\ in[1][1] = U1
          /\ in[2][1] = U2
          /\ url = [c \in {1, 2} |-> in[c][1]]
          /\ page = [c \in {1, 2} |-> in[c][2]]
    /\ Fresh({1, 2})

(* ------------------------------ actions ------------------------------- *)

\* the URL kept in one place for every instance: the last one constructed
class_url(c) == url[Cardinality(Calls)]

\* self.url
self_url(c) == url[c]

\* lines 31-35: requests.get, raise_for_status, BeautifulSoup; lines 60-62 on
\* a RequestException
Fetch(c) ==
    /\ pc[c] = "start"
    /\ started' = [started EXCEPT ![c] = @ + 1]
    /\ LET exc == IF ~startswith_http(self_url(c)) THEN "MissingSchema"
                  ELSE IF page[c].status # "ok" THEN page[c].status
                  ELSE ""
       IN  IF exc # ""
           THEN /\ log' = Append(log, <<"Error fetching the URL", exc>>)
                /\ result' = [result EXCEPT ![c] = ReturnedNone]
                /\ pc' = [pc EXCEPT ![c] = "done"]
                /\ soup' = soup
           ELSE /\ soup' = [soup EXCEPT ![c] = BeautifulSoup(page[c].body)]
                /\ pc' = [pc EXCEPT ![c] = "parsed"]
                /\ UNCHANGED <<log, result>>
    /\ UNCHANGED <<url, page, title, image_url, content, request, response>>

\* line 38
ExtractTitle(c) ==
    /\ pc[c] = "parsed"
    /\ title' = [title EXCEPT ![c] = _extract_title(soup[c])]
    /\ pc' = [pc EXCEPT ![c] = "titled"]
    /\ UNCHANGED <<url, page, soup, image_url, content, result, log, started,
                   request, response>>

\* line 41; a ValueError of urljoin is no RequestException and leaves the call
ExtractImage(c) ==
    /\ pc[c] = "titled"
    /\ LET r == _extract_image_url(self_url(c), soup[c]) IN
       IF r.raises
       THEN /\ result' = [result EXCEPT ![c] = Raised("ValueError")]
            /\ pc' = [pc EXCEPT ![c] = "done"]
            /\ UNCHANGED image_url
       ELSE /\ image_url' = [image_url EXCEPT ![c] = r.value]
            /\ pc' = [pc EXCEPT ![c] = "imaged"]
            /\ UNCHANGED result
    /\ UNCHANGED <<url, page, soup, title, content, log, started, request, response>>

\* line 44
ExtractContent(c) ==
    /\ pc[c] = "imaged"
    /\ LET r == _extract_content(soup[c]) IN
       /\ soup' = [soup EXCEPT ![c] = r.soup]
       /\ content' = [content EXCEPT ![c] = r.value]
    /\ pc' = [pc EXCEPT ![c] = "contented"]
    /\ UNCHANGED <<url, page, title, image_url, result, log, started, request,
                   response>>

\* lines 47-58: the date, then the record
ExtractDate(c) ==
    /\ pc[c] = "contented"
    /\ \E t \in Clock :
          result' = [result EXCEPT ![c] =
                        Returned([title |-> title[c],
                                  image_url |-> image_url[c],
                                  content |-> content[c],
                                  date |-> _extract_date(soup[c], t),
                                  source_url |-> Str(self_url(c))])]
    /\ pc' = [pc EXCEPT ![c] = "done"]
    /\ UNCHANGED <<url, page, soup, title, image_url, content, log, started,
                   request, response>>

\* app.py lines 8-13: request.json, data.get("link"), NewsScraper(url).
\* request.json answers malformed JSON with 400 itself; data.get raises
\* AttributeError when the JSON value is no object.
Handle(c) ==
    /\ pc[c] = "request"
    /\ LET data == request[c] IN
       IF data.kind = "malformed"
       THEN /\ response' = [response EXCEPT ![c] =
                               Response(400, "error", "Bad Request", NoArticle)]
            /\ pc' = [pc EXCEPT ![c] = "responded"]
            /\ url' = url
       ELSE IF data.kind # "object"
       THEN /\ response' = [response EXCEPT ![c] =
                               Response(500, "exception", "AttributeError", NoArticle)]
            /\ pc' = [pc EXCEPT ![c] = "responded"]
            /\ url' = url
       ELSE IF ~Truthy(data.link)
       THEN /\ response' = [response EXCEPT ![c] =
                               Response(400, "error", "No URL provided", NoArticle)]
            /\ pc' = [pc EXCEPT ![c] = "responded"]
            /\ url' = url
       ELSE /\ url' = [url EXCEPT ![c] = data.link.s]
            /\ pc' = [pc EXCEPT ![c] = "start"]
            /\ response' = response
    /\ UNCHANGED <<page, soup, title, image_url, content, result, log, started,
                   request>>

\* app.py lines 14-15: the record, or the error when scrape_article returned
\* None; what scrape_article raised leaves the handler
Respond(c) ==
    /\ pc[c] = "done"
    /\ request[c].kind # "none"
    /\ response' = [response EXCEPT ![c] =
                       IF result[c].kind = "article"
                       THEN Response(200, "article", "", result[c].article)
                       ELSE IF result[c].kind = "None"
                       THEN Response(200, "error", "Failed to scrape", NoArticle)
                       ELSE Response(500, "exception", result[c].kind, NoArticle)]
    /\ pc' = [pc EXCEPT ![c] = "responded"]
    /\ UNCHANGED <<url, page, soup, title, image_url, content, result, log, started,
                   request>>

\* scrape_article, one step of one call
Next ==
    \/ \E c \in Calls : Fetch(c)
    \/ \E c \in Calls : ExtractTitle(c)
    \/ \E c \in Calls : ExtractImage(c)
    \/ \E c \in Calls : ExtractContent(c)
    \/ \E c \in Calls : ExtractDate(c)

\* the POST /scrape handler, one step of one request
NextApp ==
    \/ \E c \in Calls : Handle(c)
    \/ Next
    \/ \E c \in Calls : Respond(c)

Spec == Init /\ [][Next]_vars

SpecConc == InitConc /\ [][Next]_vars

SpecApp == InitApp /\ [][NextApp]_vars

(* ------------------------------- claims ------------------------------- *)

\* requests.get answered call c with a page
FetchOk(c) == startswith_http(url[c]) /\ page[c].status = "ok"

\* the document of call c as the parser built it
Doc(c) == BeautifulSoup(page[c].body)

\* scrape_article of call c returned a record
HasArticle(c) == pc[c] \in {"done", "responded"} /\ result[c].kind = "article"

\* the extractor of call c has returned
RanTitle(c) == ~title[c].none

RanImage(c) == pc[c] \in {"imaged", "contented"} \/ HasArticle(c)

RanContent(c) == ~content[c].none

\* the selectors of sels that match an element of doc
Hits(doc, sels) ==
    {k \in DOMAIN sels : \E i \in DOMAIN doc : Matches(doc, i, sels[k])}

\* the first element, in document order, that selector sel matches
FirstOf(doc, sel) == Min({i \in DOMAIN doc : Matches(doc, i, sel)})

\* the element of the highest-priority selector that matches, 0 when none does
Chosen(doc, sels) ==
    IF Hits(doc, sels) = {} THEN 0 ELSE FirstOf(doc, sels[Min(Hits(doc, sels))])

\* the elements that content_elem(["script", "style"]) is to remove
Scripts(doc, e) ==
    {i \in DOMAIN doc : /\ Ancestor(doc, e, i)
                        /\ \/ doc[i].el.tag \in {"script", "style"}
                           \/ \E a \in DOMAIN doc :
                                 /\ Ancestor(doc, a, i)
                                 /\ Ancestor(doc, e, a)
                                 /\ doc[a].el.tag \in {"script", "style"}}

RECURSIVE TextOf(_, _, _, _)
\* the stripped non-empty text nodes of the elements of keep, from index i on,
\* joined with sep
TextOf(doc, keep, i, sep) ==
    IF i > Len(doc) THEN <<>>
    ELSE LET rest == TextOf(doc, keep, i + 1, sep)
             t == strip(doc[i].el.text)
         IN  IF i \notin keep \/ t = <<>> THEN rest
             ELSE IF rest = <<>> THEN t
             ELSE t \o sep \o rest

\* the text of container e without its script and style elements
PrunedText(doc, e) ==
    TextOf(doc, ({e} \cup Descendants(doc, e)) \ Scripts(doc, e), 1, <<WS>>)

\* C1 as stated: scrape_article returns None exactly when the fetch failed;
\* then no extractor has run; and whenever the fetch succeeded a record is
\* returned.
C1_NoneIffFetchFailed ==
    \A c \in Calls :
        pc[c] = "done" =>
            /\ result[c].kind = "None" <=> ~FetchOk(c)
            /\ ~FetchOk(c) => title[c].none /\ image_url[c].none /\ content[c].none
            /\ FetchOk(c) => result[c].kind = "article"

ArticleKeys == {"title", "image_url", "content", "date", "source_url"}

\* C2 as stated: every record has the fixed keys, and its title, image_url
\* and content are each a non-empty string (extracted, or the sentinel).
C2_FixedShapeNonEmpty ==
    \A c \in Calls :
        HasArticle(c) =>
            /\ DOMAIN result[c].article = ArticleKeys
            /\ Truthy(result[c].article.title)
            /\ Truthy(result[c].article.image_url)
            /\ Truthy(result[c].article.content)

\* the values the candidates of an extractor yield on doc: None where the
\* selector matches nothing
TitleValues(doc) ==
    [k \in DOMAIN title_selectors |->
        IF k \in Hits(doc, title_selectors)
        THEN Str(get_text(doc, FirstOf(doc, title_selectors[k]), <<>>))
        ELSE None]

ImageValues(u, doc) ==
    [k \in DOMAIN image_selectors |->
        IF k \in Hits(doc, image_selectors)
        THEN absolutize(u, image_attr(doc, FirstOf(doc, image_selectors[k]))).value
        ELSE None]

ContentValues(doc) ==
    [k \in DOMAIN content_selectors |->
        IF k \in Hits(doc, content_selectors)
        THEN Str(PrunedText(doc, FirstOf(doc, content_selectors[k])))
        ELSE None]

\* the candidates of vals that yield a non-empty value
NonEmpty(vals) == {k \in DOMAIN vals : Truthy(vals[k])}

\* the value of the first candidate whose selector matches, else sentinel
FirstMatch(doc, sels, vals, sentinel) ==
    IF Hits(doc, sels) = {} THEN Str(sentinel) ELSE vals[Min(Hits(doc, sels))]

TitleClassed(doc) ==
    {i \in DOMAIN doc :
        /\ doc[i].el.tag = "h1"
        /\ \/ doc[i].el.cls \cap {"article-title", "post-title"} # {}
           \/ doc[i].el.id = "main-title"}

TitleTags(doc) == {i \in DOMAIN doc : doc[i].el.tag = "title"}

H1Tags(doc) == {i \in DOMAIN doc : doc[i].el.tag = "h1"}

\* C4 as stated: without a title-class heading, a document with an h1 and a
\* <title> gets the trimmed text of the h1 as its title.
C4_H1BeforeTitle ==
    \A c \in Calls :
        LET doc == Doc(c) IN
        RanTitle(c) /\ TitleClassed(doc) = {} /\ H1Tags(doc) # {} /\ TitleTags(doc) # {}
            => title[c] = Str(get_text(doc, Min(H1Tags(doc)), <<>>))

\* C4 amended: the title extractor prefers the title-class headings, then the
\* document <title> element, then a generic h1: without a title-class heading,
\* a document with an h1 and a <title> gets the trimmed text of the <title>.
C4_TitleBeforeH1 ==
    \A c \in Calls :
        LET doc == Doc(c) IN
        RanTitle(c) =>
            IF TitleClassed(doc) # {}
            THEN \E i \in TitleClassed(doc) : title[c] = Str(get_text(doc, i, <<>>))
            ELSE IF TitleTags(doc) # {}
            THEN title[c] = Str(strip(doc[Min(TitleTags(doc))].el.text))
            ELSE IF H1Tags(doc) # {}
            THEN title[c] = Str(get_text(doc, Min(H1Tags(doc)), <<>>))
            ELSE title[c] = Str(NoTitle)

\* a record titled by the <title> of a document whose h1 comes first and has
\* another text
C4_Witness ==
    \E c \in Calls :
        LET doc == Doc(c) IN
        /\ HasArticle(c)
        /\ TitleClassed(doc) = {} /\ H1Tags(doc) # {} /\ TitleTags(doc) # {}
        /\ Min(H1Tags(doc)) < Min(TitleTags(doc))
        /\ get_text(doc, Min(H1Tags(doc)), <<>>) = <<"Heading">>
        /\ result[c].article.title = Str(<<"Page", WS, "title">>)

\* the script and style elements below the content container of doc
ScriptTags(doc, e) ==
    {i \in DOMAIN doc : Ancestor(doc, e, i) /\ doc[i].el.tag \in {"script", "style"}}

DateValue(doc, e) ==
    LET a == doc[e].el.attrs IN
    IF Truthy(a["content"]) THEN a["content"].s
    ELSE IF Truthy(a["datetime"]) THEN a["datetime"].s
    ELSE get_text(doc, e, <<>>)

\* the date candidates whose value parses
Parsing(doc) ==
    {k \in Hits(doc, date_selectors) :
        ~fromisoformat(replace_Z(DateValue(doc, FirstOf(doc, date_selectors[k])))).raises}

Nows == {Str(now_isoformat(t)) : t \in Clock}

\* C6: the date of a record is the ISO-8601 form of the value of the first
\* candidate, in priority order, whose value parses, whatever the candidates
\* ahead of it hold; it is the current time only when no candidate parses.
\* The candidates are those of the document the date extractor is handed,
\* soup[c] once the content extractor has returned.
C6_FirstParsingDate ==
    \A c \in Calls :
        LET doc == soup[c]
            good == Parsing(doc)
            date == result[c].article.date
        IN  HasArticle(c) =>
               IF good = {} THEN date \in Nows
               ELSE LET v == DateValue(doc, FirstOf(doc, date_selectors[Min(good)])) IN
                    /\ date \notin Nows
                    /\ date = Str(isoformat(fromisoformat(replace_Z(v)).dt))

\* a record dated by a candidate behind one whose value does not parse, its
\* "Z" normalised
C6_Witness ==
    \E c \in Calls :
        LET doc == soup[c] IN
        /\ HasArticle(c)
        /\ Parsing(doc) # {}
        /\ \E k \in Hits(doc, date_selectors) : k < Min(Parsing(doc))
        /\ result[c].article.date \notin Nows

\* C7 as stated: a URL that starts with a scheme is returned unchanged, and
\* every image_url of a record that is not the sentinel is an absolute URL.
C7_ImageAbsolute ==
    \A c \in Calls :
        LET doc == Doc(c)
            e == Chosen(doc, image_selectors)
            v == result[c].article.image_url
        IN  HasArticle(c) =>
               /\ e # 0 /\ Truthy(image_attr(doc, e)) /\ image_attr(doc, e).s[1] \in Schemes
                     => v = image_attr(doc, e)
               /\ v # Str(NoImage) => Truthy(v) /\ v.s[1] \in Schemes

RECURSIVE Compact(_, _, _)
\* the elements of keep from index i on, as a document of their own
Compact(doc, keep, i) ==
    IF i > Len(doc) THEN <<>>
    ELSE IF i \notin keep THEN Compact(doc, keep, i + 1)
    ELSE <<[el |-> doc[i].el,
            parent |-> Cardinality({j \in keep : j <= doc[i].parent})]>>
         \o Compact(doc, keep, i + 1)

\* C10: until the content extractor runs the document is as parsed; from then
\* on it is the parsed document without the script and style elements below
\* the first matching content container, so unchanged when none matches.
C10_Frame ==
    \A c \in Calls :
        LET doc == Doc(c)
            e == Chosen(doc, content_selectors)
        IN  /\ pc[c] \in {"parsed", "titled", "imaged"} => soup[c] = doc
            /\ result[c].kind = "ValueError" => soup[c] = doc
            /\ RanContent(c) =>
                  /\ e = 0 => soup[c] = doc
                  /\ e # 0 => soup[c] = Compact(doc, DOMAIN doc \ ScriptTags(doc, e), 1)

\* a record of a document with a script in the container, gone, and an
\* element after it, kept
C10_Witness ==
    \E c \in Calls :
        LET doc == Doc(c)
            e == Chosen(doc, content_selectors)
        IN  /\ HasArticle(c)
            /\ e # 0
            /\ ScriptTags(doc, e) # {}
            /\ \E i \in DOMAIN doc : i > e /\ i \notin ScriptTags(doc, e)
            /\ Len(soup[c]) < Len(doc)

\* scrape_article on URL u, answered p, with the clock reading t, run alone
\* from its first line to its last
scrape_article(u, p, t) ==
    IF ~startswith_http(u) \/ p.status # "ok" THEN ReturnedNone
    ELSE LET doc == BeautifulSoup(p.body)
             image == _extract_image_url(u, doc)
             body == _extract_content(doc)
         IN  IF image.raises THEN Raised("ValueError")
             ELSE Returned([title |-> _extract_title(doc),
                            image_url |-> image.value,
                            content |-> body.value,
                            date |-> _extract_date(body.soup, t),
                            source_url |-> Str(u)])

\* C8: whatever the other calls do meanwhile, a call ends as it ends when run
\* alone on its own URL and its own fetched document (and its own reading of
\* the clock, where the date falls back to it).
C8_Isolation ==
    \A c \in Calls :
        pc[c] = "done" =>
            \E t \in Clock : result[c] = scrape_article(url[c], page[c], t)

\* a call has returned its record, of a page whose script it removed, while a
\* call on another URL and another page is between two extractors
C8_Witness ==
    \E c, d \in Calls :
        /\ c # d
        /\ HasArticle(c)
        /\ soup[c] # Doc(c)
        /\ pc[d] \in {"titled", "imaged"}
        /\ url[c] # url[d]
        /\ page[c] # page[d]
        /\ image_url[d] # result[c].article.image_url

\* C9 as stated: every request is answered with the record or an error
\* response; without a link the answer is a 400 and no scrape starts; with a
\* link one scrape starts and its outcome is the answer.
C9_EndpointAnswers ==
    \A c \in Calls :
        pc[c] = "responded" =>
            /\ response[c].kind \in {"article", "error"}
            /\ request[c].kind = "object" /\ ~Truthy(request[c].link)
                  => response[c].status = 400 /\ started[c] = 0
            /\ request[c].kind = "object" /\ Truthy(request[c].link)
                  => /\ started[c] = 1
                     /\ result[c].kind = "article"
                           => response[c] = Response(200, "article", "", result[c].article)

====
